---- MODULE Spec2Model ----
(***************************************************************************)
(* Model of custom_components/reflex_clerk/lib/reflex_clerk.py: the three  *)
(* page installers install_signin_page, install_signup_page and            *)
(* install_pages, acting on the route table app.pages of one rx.App.       *)
(*                                                                         *)
(* Strings that the code slices or concatenates (routes, route keys) are   *)
(* sequences of one-character strings, so route[1:] and "+" are computed.  *)
(* A component built by a call f(child, k=v) is the record of that call.   *)
(***************************************************************************)
EXTENDS Integers, Sequences, FiniteSets, TLC

VARIABLES pages, last, calls

vars == <<pages, last, calls>>

(* ---------------------------------------------------------------- bounds *)
MaxCalls == 2
MaxRouteLen == 2

(* ---------------------------------------------------------------- inputs *)
\* routes given in a sequence of calls: empty, relative, "/" and "//"
Routes == {<<>>, <<"s">>, <<"/">>, <<"/", "/">>}

\* routes given in a single call on a fresh app: every string up to MaxRouteLen
RouteChars == {"/", "s"}

RECURSIVE StringsUpTo(_)
StringsUpTo(n) ==
    IF n = 0 THEN {<<>>}
    ELSE LET shorter == StringsUpTo(n - 1)
         IN  shorter \cup {Append(s, c) : s \in {t \in shorter : Len(t) = n - 1}, c \in RouteChars}

WideRoutes == StringsUpTo(MaxRouteLen)

\* an optional keyword argument: <<>> when the caller omits it, <<v>> when given
Optional(values) == {<<>>} \cup {<<v>> : v \in values}

RouteArgs == Optional(Routes)
WideRouteArgs == Optional(WideRoutes)

None == "None"
Credentials == {None, "pk_test"}

\* **props: no option, or one option named path, route or routing
PropNames == {"path", "route", "routing"}
PropVals == {"hash"}
PropSets == {<<>>} \cup UNION {[{name} -> PropVals] : name \in PropNames}
\* **props of a function that has a parameter named route never holds "route"
PagePropSets == {p \in PropSets : "route" \notin DOMAIN p}

(* ----------------------------------------------------------- the program *)
DefaultSigninRoute == <<"/", "s", "i", "g", "n", "i", "n">>
\* variant: the sign-up default copied from the sign-in default
DefaultSignupRoute_copied == <<"/", "s", "i", "g", "n", "i", "n">>
DefaultSignupRoute == <<"/", "s", "i", "g", "n", "u", "p">>

SigninSuffix ==
    <<"/", "[", "[", ".", ".", ".", "s", "i", "g", "n", "i", "n", "]", "]", "/", "i", "n", "d", "e", "x">>
\* variant: the sign-up key built with the sign-in suffix
SignupSuffix_copied ==
    <<"/", "[", "[", ".", ".", ".", "s", "i", "g", "n", "i", "n", "]", "]", "/", "i", "n", "d", "e", "x">>
SignupSuffix ==
    <<"/", "[", "[", ".", ".", ".", "s", "i", "g", "n", "u", "p", "]", "]", "/", "i", "n", "d", "e", "x">>

\* parameter binding of a keyword argument that has a default value
Default(arg, dflt) == IF arg = <<>> THEN dflt ELSE arg[1]

\* variant: the empty route passes the check
startswith_or_empty(route) == Len(route) = 0 \/ route[1] = "/"

\* route.startswith("/")
startswith(route) == Len(route) >= 1 /\ route[1] = "/"

\* variant: the leading "/" is kept in the key
slice1_whole(route) == route

\* route[1:]
slice1(route) == IF Len(route) = 0 THEN <<>> ELSE Tail(route)

\* f(name=..., **props) raises TypeError when props repeats an explicit keyword
DuplicateKeyword(explicit, props) == explicit \cap DOMAIN props # {}

\* app.pages[key] = page
SetItem(table, key, page) ==
    [k \in DOMAIN table \cup {key} |-> IF k = key THEN page ELSE table[k]]

\* clerk_provider(rx.center(rx.vstack(form, align=, spacing=), height=), publishable_key=)
Page(form, publishable_key) ==
    [tag |-> "clerk_provider",
     publishable_key |-> publishable_key,
     children |-> << [tag |-> "center",
                      height |-> "100vh",
                      children |-> << [tag |-> "vstack",
                                       align |-> "center",
                                       spacing |-> "7",
                                       children |-> <<form>>] >>] >>]

\* sign_in(path=route, **props)
sign_in(route, props) == [tag |-> "sign_in", path |-> route, props |-> props]

\* variant: the sign-up page built around the sign-in form
sign_up_as_sign_in(route, props) == [tag |-> "sign_in", path |-> route, props |-> props]

\* sign_up(path=route, **props)
sign_up(route, props) == [tag |-> "sign_up", path |-> route, props |-> props]

signin_key(route) == slice1(route) \o SigninSuffix
signup_key(route) == slice1(route) \o SignupSuffix

\* what a call did, in order: the functions entered and the keys of app.pages bound
Entered(fn) == [event |-> "call", name |-> fn, key |-> <<>>]
Bound(form, key) == [event |-> "setitem", name |-> form, key |-> key]

\* an exception leaves the function: nothing after the raise is executed
Raised(table, error, done) == [pages |-> table, err |-> error, trace |-> done]

\* the body of install_signin_page, after its parameters are bound
install_signin_page(table, publishable_key, route, props) ==
    LET entered == <<Entered("install_signin_page")>>
    IN  IF ~startswith(route) THEN Raised(table, "AssertionError", entered)
        ELSE IF DuplicateKeyword({"path"}, props) THEN Raised(table, "TypeError", entered)
        ELSE LET signin_page == Page(sign_in(route, props), publishable_key)
             IN  [pages |-> SetItem(table, signin_key(route), signin_page),
                  err |-> "none",
                  trace |-> Append(entered, Bound("sign_in", signin_key(route)))]

\* the body of install_signup_page, after its parameters are bound
install_signup_page(table, publishable_key, route, props) ==
    LET entered == <<Entered("install_signup_page")>>
    IN  IF ~startswith(route) THEN Raised(table, "AssertionError", entered)
        ELSE IF DuplicateKeyword({"path"}, props) THEN Raised(table, "TypeError", entered)
        ELSE LET signup_page == Page(sign_up(route, props), publishable_key)
             IN  [pages |-> SetItem(table, signup_key(route), signup_page),
                  err |-> "none",
                  trace |-> Append(entered, Bound("sign_up", signup_key(route)))]

\* variant: the sign-up page installed before the sign-in page
install_pages_signup_first(table, publishable_key, signin_route, signup_route, props) ==
    LET entered == <<Entered("install_pages")>>
    IN  IF DuplicateKeyword({"publishable_key", "route"}, props)
        THEN Raised(table, "TypeError", entered)
        ELSE LET first == install_signup_page(table, publishable_key, signup_route, props)
             IN  IF first.err # "none"
                 THEN Raised(first.pages, first.err, entered \o first.trace)
                 ELSE LET second == install_signin_page(first.pages, publishable_key,
                                                        signin_route, props)
                      IN  [pages |-> second.pages,
                           err |-> second.err,
                           trace |-> entered \o first.trace \o second.trace]

\* variant: the options are not forwarded to the sign-up page
install_pages_signup_without_props(table, publishable_key, signin_route, signup_route, props) ==
    LET entered == <<Entered("install_pages")>>
    IN  IF DuplicateKeyword({"publishable_key", "route"}, props)
        THEN Raised(table, "TypeError", entered)
        ELSE LET first == install_signin_page(table, publishable_key, signin_route, props)
             IN  IF first.err # "none"
                 THEN Raised(first.pages, first.err, entered \o first.trace)
                 ELSE LET second == install_signup_page(first.pages, publishable_key,
                                                        signup_route, <<>>)
                      IN  [pages |-> second.pages,
                           err |-> second.err,
                           trace |-> entered \o first.trace \o second.trace]

\* the body of install_pages, after its parameters are bound: the two calls pass
\* publishable_key= and route= next to **props
install_pages(table, publishable_key, signin_route, signup_route, props) ==
    LET entered == <<Entered("install_pages")>>
    IN  IF DuplicateKeyword({"publishable_key", "route"}, props)
        THEN Raised(table, "TypeError", entered)
        ELSE LET first == install_signin_page(table, publishable_key, signin_route, props)
             IN  IF first.err # "none"
                 THEN Raised(first.pages, first.err, entered \o first.trace)
                 ELSE LET second == install_signup_page(first.pages, publishable_key,
                                                        signup_route, props)
                      IN  [pages |-> second.pages,
                           err |-> second.err,
                           trace |-> entered \o first.trace \o second.trace]

(* ------------------------------------------------------------ the machine *)
NoCall ==
    [op |-> "none", publishable_key |-> None, route |-> <<>>, signin_route |-> <<>>,
     signup_route |-> <<>>, props |-> <<>>, err |-> "none", pre |-> <<>>, trace |-> <<>>]

Init ==
    /\ pages = <<>>
    /\ last = NoCall
    /\ calls = 0

SigninCall(args) ==
    \E publishable_key \in Credentials, route \in args, props \in PagePropSets :
        LET r == install_signin_page(pages, publishable_key, Default(route, DefaultSigninRoute), props)
        IN  /\ calls' = calls + 1
            /\ pages' = r.pages
            /\ last' = [NoCall EXCEPT !.op = "install_signin_page",
                                      !.publishable_key = publishable_key,
                                      !.route = route, !.props = props,
                                      !.err = r.err, !.pre = pages, !.trace = r.trace]

SignupCall(args) ==
    \E publishable_key \in Credentials, route \in args, props \in PagePropSets :
        LET r == install_signup_page(pages, publishable_key, Default(route, DefaultSignupRoute), props)
        IN  /\ calls' = calls + 1
            /\ pages' = r.pages
            /\ last' = [NoCall EXCEPT !.op = "install_signup_page",
                                      !.publishable_key = publishable_key,
                                      !.route = route, !.props = props,
                                      !.err = r.err, !.pre = pages, !.trace = r.trace]

PagesCall(args) ==
    \E publishable_key \in Credentials, signin_route \in args, signup_route \in args,
       props \in PropSets :
        LET r == install_pages(pages, publishable_key,
                               Default(signin_route, DefaultSigninRoute),
                               Default(signup_route, DefaultSignupRoute), props)
        IN  /\ calls' = calls + 1
            /\ pages' = r.pages
            /\ last' = [NoCall EXCEPT !.op = "install_pages",
                                      !.publishable_key = publishable_key,
                                      !.signin_route = signin_route,
                                      !.signup_route = signup_route, !.props = props,
                                      !.err = r.err, !.pre = pages, !.trace = r.trace]

\* a sequence of up to MaxCalls installer calls on one app
InstallSigninPage == calls < MaxCalls /\ SigninCall(RouteArgs)
InstallSignupPage == calls < MaxCalls /\ SignupCall(RouteArgs)
InstallPages == calls < MaxCalls /\ PagesCall(RouteArgs)

Next == InstallSigninPage \/ InstallSignupPage \/ InstallPages

Spec == Init /\ [][Next]_vars

\* one installer call on a fresh app, over every route string up to MaxRouteLen
FirstSigninPage == calls = 0 /\ SigninCall(WideRouteArgs)
FirstSignupPage == calls = 0 /\ SignupCall(WideRouteArgs)
FirstPages == calls = 0 /\ PagesCall(WideRouteArgs)

NextFirst == FirstSigninPage \/ FirstSignupPage \/ FirstPages

SpecFirst == Init /\ [][NextFirst]_vars

TypeOK ==
    /\ calls \in 0..MaxCalls
    /\ last.err \in {"none", "AssertionError", "TypeError"}

(* ------------------------------------------------- vocabulary of the claims *)
\* the route the last single-page call ran with, after the default is applied
LastRoute ==
    Default(last.route,
            IF last.op = "install_signin_page" THEN DefaultSigninRoute ELSE DefaultSignupRoute)
LastSigninRoute == Default(last.signin_route, DefaultSigninRoute)
LastSignupRoute == Default(last.signup_route, DefaultSignupRoute)

SinglePage == {"install_signin_page", "install_signup_page"}

\* "starts with /", and the documented keys, stated without the program's helpers
Absolute(r) == r # <<>> /\ Head(r) = "/"
ExpectedSigninKey(r) ==
    SubSeq(r, 2, Len(r)) \o
    <<"/", "[", "[", ".", ".", ".", "s", "i", "g", "n", "i", "n", "]", "]", "/", "i", "n", "d", "e", "x">>
ExpectedSignupKey(r) ==
    SubSeq(r, 2, Len(r)) \o
    <<"/", "[", "[", ".", ".", ".", "s", "i", "g", "n", "u", "p", "]", "]", "/", "i", "n", "d", "e", "x">>
ExpectedKey(op, r) ==
    IF op = "install_signin_page" THEN ExpectedSigninKey(r) ELSE ExpectedSignupKey(r)

\* the documented page tree around a form built with path and options
ExpectedPage(form, path, props, credential) ==
    [tag |-> "clerk_provider",
     publishable_key |-> credential,
     children |-> << [tag |-> "center",
                      height |-> "100vh",
                      children |-> << [tag |-> "vstack",
                                       align |-> "center",
                                       spacing |-> "7",
                                       children |-> << [tag |-> form,
                                                        path |-> path,
                                                        props |-> props] >>] >>] >>]
ExpectedForm(op) == IF op = "install_signin_page" THEN "sign_in" ELSE "sign_up"

\* post differs from pre at most in the entries under keys
SameExcept(post, pre, keys) ==
    /\ DOMAIN pre \subseteq DOMAIN post
    /\ DOMAIN post \subseteq DOMAIN pre \cup keys
    /\ \A k \in DOMAIN pre \ keys : post[k] = pre[k]

SetItems(trace) == SelectSeq(trace, LAMBDA e : e.event = "setitem")

(* ------------------------------------------------------------------ claims *)
\* C1: a single-page installer given a route that does not start with "/" (the
\* empty route included) fails with the assertion error and leaves app.pages
\* exactly as it was.
C1_NonAbsoluteRouteRejected ==
    (last.op \in SinglePage /\ ~Absolute(LastRoute))
        => (last.err = "AssertionError" /\ pages = last.pre)

C1_Witness ==
    /\ last.op = "install_signup_page"
    /\ LastRoute = <<>>
    /\ DOMAIN last.pre # {}
    /\ last.err = "AssertionError"

\* C2: a successful single-page call with an absolute route R binds exactly one
\* key, R without its first character followed by the installer's suffix, and
\* every other entry of app.pages keeps its key and value.
C2_BindsExactlyTheDerivedKey ==
    (last.op \in SinglePage /\ Absolute(LastRoute) /\ last.err = "none")
        => LET key == ExpectedKey(last.op, LastRoute)
           IN  /\ key \in DOMAIN pages
               /\ SameExcept(pages, last.pre, {key})
               /\ Len(SetItems(last.trace)) = 1
               /\ SetItems(last.trace)[1].key = key

C2_Witness ==
    /\ last.op = "install_signin_page"
    /\ LastRoute = <<"/", "/">>
    /\ last.err = "none"
    /\ DOMAIN last.pre # {}
    /\ ExpectedSigninKey(LastRoute) \notin DOMAIN last.pre
    /\ ExpectedSigninKey(LastRoute) \in DOMAIN pages

C4_PartialInstallation ==
    /\ (last.op = "install_pages" /\ Absolute(LastSigninRoute) /\ ~Absolute(LastSignupRoute))
           => /\ last.err = "AssertionError"
              /\ \E i \in 1..Len(last.trace) : last.trace[i] = Entered("install_signup_page")
              /\ ExpectedSigninKey(LastSigninRoute) \in DOMAIN pages
              /\ DOMAIN pages = DOMAIN last.pre \cup {ExpectedSigninKey(LastSigninRoute)}
              /\ \A i \in 1..Len(last.trace) : last.trace[i].name # "sign_up"
    /\ (last.op = "install_pages" /\ ~Absolute(LastSigninRoute))
           => /\ last.err # "none"
              /\ \A i \in 1..Len(last.trace) : last.trace[i] # Entered("install_signup_page")

\* C5: install_pages is install_signin_page followed by install_signup_page with
\* the same credential and options: same route table, same error, and no
\* sign-in insertion after a sign-up insertion.
C5_SequentialComposition ==
    last.op = "install_pages"
        => LET direct(f, table) ==
                   \* f(app, publishable_key=k, route=r, **props) called directly
                   IF "route" \in DOMAIN last.props
                   THEN [pages |-> table, err |-> "TypeError"]
                   ELSE IF f = "install_signin_page"
                        THEN install_signin_page(table, last.publishable_key,
                                                 LastSigninRoute, last.props)
                        ELSE install_signup_page(table, last.publishable_key,
                                                 LastSignupRoute, last.props)
               a == direct("install_signin_page", last.pre)
               b == direct("install_signup_page", a.pages)
               bound == SetItems(last.trace)
           IN  /\ a.err # "none" => (pages = a.pages /\ last.err = a.err)
               /\ a.err = "none" => (pages = b.pages /\ last.err = b.err)
               /\ \A i, j \in 1..Len(bound) :
                      (bound[i].name = "sign_up" /\ bound[j].name = "sign_in") => j < i

C5_Witness ==
    /\ last.op = "install_pages"
    /\ last.err = "none"
    /\ DOMAIN last.pre # {}
    /\ last.props # <<>>
    /\ last.publishable_key # None
    /\ Len(SetItems(last.trace)) = 2

\* C6: install_pages(app) with no route overrides and no options on an app with an
\* empty route table leaves exactly the two entries
\* "signin/[[...signin]]/index" and "signup/[[...signup]]/index", each a tree
\* whose root is the provider wrapper.
C6_DefaultKeys ==
    (/\ last.op = "install_pages"
     /\ last.signin_route = <<>>
     /\ last.signup_route = <<>>
     /\ last.props = <<>>
     /\ last.pre = <<>>)
        => /\ DOMAIN pages =
                  { <<"s", "i", "g", "n", "i", "n", "/", "[", "[", ".", ".", ".",
                      "s", "i", "g", "n", "i", "n", "]", "]", "/", "i", "n", "d", "e", "x">>,
                    <<"s", "i", "g", "n", "u", "p", "/", "[", "[", ".", ".", ".",
                      "s", "i", "g", "n", "u", "p", "]", "]", "/", "i", "n", "d", "e", "x">> }
           /\ \A k \in DOMAIN pages : pages[k].tag = "clerk_provider"

C6_Witness ==
    /\ last.op = "install_pages"
    /\ last.signin_route = <<>>
    /\ last.signup_route = <<>>
    /\ last.props = <<>>
    /\ last.publishable_key = None
    /\ last.pre = <<>>
    /\ Cardinality(DOMAIN pages) = 2

\* C7: a single-page call with an absolute route whose derived key is already in
\* app.pages never raises: it rebinds the key to the page of this call and the
\* number of entries stays the same.
C7_RebindNeverRaises ==
    (/\ last.op \in SinglePage
     /\ Absolute(LastRoute)
     /\ ExpectedKey(last.op, LastRoute) \in DOMAIN last.pre)
        => /\ last.err = "none"
           /\ Cardinality(DOMAIN pages) = Cardinality(DOMAIN last.pre)
           /\ ExpectedKey(last.op, LastRoute) \in DOMAIN pages
           /\ pages[ExpectedKey(last.op, LastRoute)] =
                  ExpectedPage(ExpectedForm(last.op), LastRoute, last.props,
                               last.publishable_key)

\* C8: the page a successful single-page call stores is the provider wrapper with
\* the credential passed in, around the 100vh centering container, around the
\* centred stack with spacing "7", around the installer's form built with path =
\* route and exactly the forwarded options; after a successful install_pages both
\* pages carry the same credential and the same options.
C8_PageBuiltFromArguments ==
    /\ (last.op \in SinglePage /\ last.err = "none")
           => pages[ExpectedKey(last.op, LastRoute)] =
                  ExpectedPage(ExpectedForm(last.op), LastRoute, last.props,
                               last.publishable_key)
    /\ (last.op = "install_pages" /\ last.err = "none")
           => /\ pages[ExpectedSigninKey(LastSigninRoute)] =
                     ExpectedPage("sign_in", LastSigninRoute, last.props, last.publishable_key)
              /\ pages[ExpectedSignupKey(LastSignupRoute)] =
                     ExpectedPage("sign_up", LastSignupRoute, last.props, last.publishable_key)

C8_Witness ==
    /\ last.op = "install_signup_page"
    /\ last.err = "none"
    /\ last.props # <<>>
    /\ last.publishable_key # None
    /\ ExpectedSignupKey(LastRoute) \in DOMAIN last.pre
    /\ last.pre[ExpectedSignupKey(LastRoute)] # pages[ExpectedSignupKey(LastRoute)]

\* C9: with absolute routes, whatever the credential and the names of the
\* forwarded options, each installer completes without error and performs its
\* insertion(s).
C9_OnlyThePreconditionFails ==
    /\ (last.op \in SinglePage /\ Absolute(LastRoute))
           => (last.err = "none" /\ ExpectedKey(last.op, LastRoute) \in DOMAIN pages)
    /\ (last.op = "install_pages" /\ Absolute(LastSigninRoute) /\ Absolute(LastSignupRoute))
           => /\ last.err = "none"
              /\ ExpectedSigninKey(LastSigninRoute) \in DOMAIN pages
              /\ ExpectedSignupKey(LastSignupRoute) \in DOMAIN pages

\* C10: for absolute routes R1 and R2, equal or not, the sign-in key of R1 differs
\* from the sign-up key of R2, so a successful install_pages keeps its sign-in
\* page and ends with exactly two entries on an empty route table; and one
\* installer gives distinct routes distinct keys.
C10_KeysNeverCoincide ==
    (last.op = "install_pages" /\ Absolute(LastSigninRoute) /\ Absolute(LastSignupRoute))
        => /\ signin_key(LastSigninRoute) # signup_key(LastSignupRoute)
           /\ LastSigninRoute # LastSignupRoute
                  => /\ signin_key(LastSigninRoute) # signin_key(LastSignupRoute)
                     /\ signup_key(LastSigninRoute) # signup_key(LastSignupRoute)
           /\ last.err = "none"
                  => /\ signin_key(LastSigninRoute) \in DOMAIN pages
                     /\ pages[signin_key(LastSigninRoute)].children[1].children[1].children[1].tag
                            = "sign_in"
                     /\ last.pre = <<>> => Cardinality(DOMAIN pages) = 2

C10_Witness ==
    /\ last.op = "install_pages"
    /\ last.signin_route # <<>>
    /\ last.signin_route = last.signup_route
    /\ Len(LastSigninRoute) = MaxRouteLen
    /\ last.err = "none"
    /\ Cardinality(DOMAIN pages) = 2

====
